---- MODULE Spec2Model ----
(***************************************************************************)
(* Model of src/server.js (the photo-enabled server, lines 1-302): the     *)
(* in-memory todo collection, the id counter, the GCS bucket as a set of   *)
(* stored keys, and the Express handlers as processes that suspend at      *)
(* every await (sharp, file.save, file.delete, file.getSignedUrl).         *)
(*                                                                         *)
(* JavaScript objects are modelled by a heap: `heap` holds every todo      *)
(* object ever constructed, `todos` holds references (heap indices) in     *)
(* array order, and a handler's local `todo` / `newTodo` is a reference,   *)
(* so a handler keeps mutating its object after the object left `todos`.   *)
(* Array indices are 1-based here; 0 stands for findIndex's -1.            *)
(*                                                                         *)
(* An external call takes effect on the store at the step where its        *)
(* promise settles; a call that settles with an error has no effect.       *)
(* Lines 303-384 of the file hold a second copy of the server without the  *)
(* photo routes; its handlers are the ones below without their photo steps.*)
(***************************************************************************)
EXTENDS Integers, Sequences, FiniteSets, Bags, TLC

\* Bounds of the model.
MaxReq == 2        \* handlers that can be in flight (suspended) at once
MaxObjs == 4       \* todo objects ever constructed (2 seeds + creates)
MaxClock == 1      \* largest value Date.now() returns (0 at startup)
MaxStarted == 3    \* requests served in one run

VARIABLES
  bucket,   \* TRUE iff `bucket` is non-null (BUCKET_NAME set and Storage() ok)
  todos,    \* the `todos` array: sequence of heap references
  heap,     \* every todo object constructed so far
  nextId,   \* the `nextId` counter
  store,    \* keys of the objects present in the GCS bucket
  clock,    \* the value Date.now() returned when it was last read
  inflight, \* the suspended handlers: a bag of their positions and locals
  started,  \* number of requests admitted so far
  last,     \* the response sent by the step just taken (NoResponse if none):
            \* the request's parameters, locals and call log, with its status
  putOk,    \* history: keys for which file.save() completed successfully
  lastOp,   \* history: per heap object, the last photo operation that
            \* responded with success ("none" | "attach" | "detach")
  delFailed,\* history: TRUE iff some file.delete() was rejected
  deleted   \* history: the ids for which DELETE /api/todos/:id responded 204

vars == <<bucket, todos, heap, nextId, store, clock, inflight, started, last,
         putOk, lastOp, delFailed, deleted>>

Null == <<>>                       \* JavaScript null (photoFilename, url)
Undefined == <<"undefined">>       \* a missing body field
Space == " "

\* Request texts: missing, empty, blank, and texts that need trimming.
Texts == {Undefined, <<>>, <<Space>>, <<"a">>, <<Space, "a", Space>>}

\* Values of req.body.completed: a boolean, or anything else ("absent").
CompletedValues == {"true", "false", "absent"}

\* Faulty variant of IsBoolean: any value is taken for a boolean.
IsBooleanAlways(v) == TRUE

\* typeof completed === 'boolean'
IsBoolean(v) == v \in {"true", "false"}

----------------------------------------------------------------------------
\* Pure helpers

RECURSIVE TrimStart(_)
TrimStart(s) ==
  IF s # <<>> /\ Head(s) = Space THEN TrimStart(Tail(s)) ELSE s

RECURSIVE TrimEnd(_)
TrimEnd(s) ==
  IF s # <<>> /\ s[Len(s)] = Space THEN TrimEnd(SubSeq(s, 1, Len(s) - 1)) ELSE s

\* Faulty variant of Trim: the text is stored as received.
TrimNoop(s) == s

\* String.prototype.trim
Trim(s) == TrimEnd(TrimStart(s))

\* Faulty variant of Blank: whitespace-only text is accepted.
BlankOnlyEmpty(text) == text = Undefined \/ text = <<>>

\* !text || text.trim() === ''
Blank(text) == text = Undefined \/ text = <<>> \/ Trim(text) = <<>>

\* `todos/${todoId}/${Date.now()}.jpg`
Filename(todoId, now) == <<todoId, now>>

NewTodoRec(id, text) ==
  [id |-> id, text |-> text, completed |-> FALSE,
   hasPhoto |-> FALSE, photoFilename |-> Null]

\* todos.findIndex(t => t.id === id); 0 when there is none
FindIndex(id) ==
  LET hits == {i \in 1..Len(todos) : heap[todos[i]].id = id}
  IN IF hits = {} THEN 0 ELSE CHOOSE i \in hits : \A j \in hits : i <= j

\* todos.find(t => t.id === id) as a heap reference; 0 when undefined
Find(id) == IF FindIndex(id) = 0 THEN 0 ELSE todos[FindIndex(id)]

\* Faulty variant of Splice: nothing is removed.
SpliceKeep(s, i) == s

\* todos.splice(i, 1) for a 1-based i >= 1: removes nothing past the end
Splice(s, i) ==
  IF i > Len(s) THEN s ELSE SubSeq(s, 1, i - 1) \o SubSeq(s, i + 1, Len(s))

\* todo.hasPhoto && todo.photoFilename
HasPhoto(t) == t.hasPhoto /\ t.photoFilename # Null

\* Faulty variant of Linked: hasPhoto is not assigned.
LinkedNameOnly(t, filename) == [t EXCEPT !.photoFilename = filename]

\* Faulty variant of Linked: photoFilename is not assigned.
LinkedHalf(t, filename) == [t EXCEPT !.hasPhoto = TRUE]

\* todo.hasPhoto = true; todo.photoFilename = filename
Linked(t, filename) == [t EXCEPT !.hasPhoto = TRUE, !.photoFilename = filename]

\* Faulty variant of Unlinked: the fields are not cleared.
UnlinkedKeep(t) == t

\* todo.hasPhoto = false; todo.photoFilename = null
Unlinked(t) == [t EXCEPT !.hasPhoto = FALSE, !.photoFilename = Null]

\* Faulty variant of NextIdAfter: the counter is read but not incremented.
NextIdStuck == nextId

\* nextId++ : the counter's value after the post-increment
NextIdAfter == nextId + 1

----------------------------------------------------------------------------
\* Request handlers

IdleReq ==
  [pc |-> "idle", kind |-> "none", id |-> 0, file |-> FALSE, text |-> Null,
   todo |-> 0, todoIndex |-> 0, key |-> Null, status |-> 0, url |-> Null,
   completed |-> "absent", list |-> <<>>, ops |-> <<>>]

\* A handler entered with its request parameters.
Entered(kind, id, file, text) ==
  [IdleReq EXCEPT !.kind = kind, !.id = id, !.file = file, !.text = text]

\* An external call issued: appended to the handler's call log as pending.
Call(q, op, key) == Append(q.ops, <<op, key, "pending">>)

\* The pending call's outcome recorded.
Returned(q, ok) ==
  [q.ops EXCEPT ![Len(q.ops)] = <<@[1], @[2], IF ok THEN "ok" ELSE "err">>]

\* res.status(s).json(...) / res.status(s).send()
Responded(q, status) == [q EXCEPT !.pc = "done", !.status = status]

NoResponse == IdleReq

\* A request arrives while fewer than MaxReq handlers are suspended.
Admit ==
  /\ BagCardinality(inflight) < MaxReq
  /\ started < MaxStarted
  /\ started' = started + 1

\* The handlers suspended at an await.
Handlers == BagToSet(inflight)

\* The suspended handlers without h (h = IdleReq: a handler just entered).
Others(h) == inflight (-) SetToBag({h})

\* Faulty variant of Respond: the handler returns without sending a response
\* and its request stays open.
RespondNever(h, q, status) ==
  /\ inflight' = Others(h) (+) SetToBag({q})
  /\ last' = NoResponse

\* The handler h sends its response and returns; q is h with its last locals.
Respond(h, q, status) ==
  /\ inflight' = Others(h)
  /\ last' = Responded(q, status)

\* The handler h suspends at an await with locals q.
Suspend(h, q) ==
  /\ inflight' = Others(h) (+) SetToBag({q})
  /\ last' = NoResponse

----------------------------------------------------------------------------
\* Initial state: the process after startup (lines 15-28, 44-48)

Init ==
  /\ bucket \in BOOLEAN
  /\ heap = << NewTodoRec(1, <<"Welcome">>), NewTodoRec(2, <<"Add">>) >>
  /\ todos = <<1, 2>>
  /\ nextId = 3
  /\ store = {}
  /\ clock = 0
  /\ inflight = EmptyBag
  /\ started = 0
  /\ last = NoResponse
  /\ putOk = {}
  /\ lastOp = <<"none", "none">>
  /\ delFailed = FALSE
  /\ deleted = {}

\* Faulty variant of Configured: `bucket` is set although BUCKET_NAME is not.
ConfiguredAlways == TRUE

\* The truthiness of `bucket`, as tested by `!bucket`, `&& bucket`, `if (bucket)`:
\* it is non-null only when BUCKET_NAME was set at startup (lines 15-28).
\* uploadPhotoToGCS's own test (line 91) never fails: both callers test first.
Configured == bucket

\* Faulty variant of LinkedAfterUpload: the todo is linked although the
\* upload was rejected.
LinkedAfterUploadAlways(h, ref, key, ok) == [h EXCEPT ![ref] = Linked(@, key)]

\* The heap after `filename = await uploadPhotoToGCS(...)` and the two
\* assignments that follow it: a rejected await skips them (lines 148-155,
\* 260-262).
LinkedAfterUpload(h, ref, key, ok) ==
  IF ok THEN [h EXCEPT ![ref] = Linked(@, key)] ELSE h

\* Faulty variant of StoreAfterDelete: the object stays in the bucket.
StoreAfterDeleteKeep(key, ok) == store

\* Effect of a completed bucket.file(key).delete() on the bucket.
StoreAfterDelete(key, ok) == IF ok THEN store \ {key} ELSE store

\* A store delete settled: its effect on the bucket, and its rejection noted.
DeleteDone(key, ok) ==
  /\ store' = StoreAfterDelete(key, ok)
  /\ delFailed' = (delFailed \/ ~ok)

\* Effect of a completed file.save() on the bucket.
StoreAfterPut(key, ok) == IF ok THEN store \cup {key} ELSE store

PutDone(key, ok) ==
  /\ store' = StoreAfterPut(key, ok)
  /\ putOk' = IF ok THEN putOk \cup {key} ELSE putOk

----------------------------------------------------------------------------
\* GET /api/todos (lines 85-87)

\* res.json(todos): the todo objects serialised in array order
Listed == [i \in 1..Len(todos) |-> heap[todos[i]]]

ListTodos ==
  /\ Admit
  /\ Respond(IdleReq, [Entered("list", 0, FALSE, Null) EXCEPT !.list = Listed], 200)
  /\ UNCHANGED <<bucket, todos, heap, nextId, store, clock, putOk, lastOp, delFailed, deleted>>

----------------------------------------------------------------------------
\* POST /api/todos (lines 126-165)

CreateTodo(text, file) ==
  /\ Admit
  /\ LET q == Entered("create", 0, file, text) IN
     IF Blank(text)
     THEN /\ Respond(IdleReq, q, 400)
          /\ UNCHANGED <<todos, heap, nextId, lastOp>>
     ELSE /\ Len(heap) < MaxObjs
          /\ heap' = Append(heap, NewTodoRec(nextId, Trim(text)))
          /\ lastOp' = Append(lastOp, "none")
          /\ nextId' = NextIdAfter
          /\ LET n == [q EXCEPT !.todo = Len(heap) + 1] IN
             IF file /\ Configured
             THEN /\ Suspend(IdleReq, [n EXCEPT !.pc = "create_sharp",
                                          !.ops = Call(n, "sharp", Null)])
                  /\ UNCHANGED todos
             ELSE /\ todos' = Append(todos, n.todo)
                  /\ Respond(IdleReq, n, 201)
  /\ UNCHANGED <<bucket, store, clock, putOk, delFailed, deleted>>

\* sharp(...).toBuffer() returned inside uploadPhotoToGCS called by create
CreateSharpReturn(h, ok, now) ==
  /\ h.pc = "create_sharp"
  /\ LET q == [h EXCEPT !.ops = Returned(h, ok)] IN
     IF ok
     THEN LET key == Filename(heap[q.todo].id, now) IN
          /\ clock' = now
          /\ Suspend(h, [q EXCEPT !.pc = "create_save", !.key = key,
                                  !.ops = Call(q, "put", key)])
          /\ UNCHANGED todos
     ELSE /\ now = clock
          /\ todos' = Append(todos, q.todo)
          /\ Respond(h, q, 201)
          /\ UNCHANGED clock
  /\ UNCHANGED <<bucket, heap, nextId, store, started, putOk, lastOp, delFailed, deleted>>

\* file.save() returned inside uploadPhotoToGCS called by create
CreateSaveReturn(h, ok) ==
  /\ h.pc = "create_save"
  /\ LET q == [h EXCEPT !.ops = Returned(h, ok)] IN
     /\ PutDone(q.key, ok)
     /\ heap' = LinkedAfterUpload(heap, q.todo, q.key, ok)
     /\ lastOp' = IF ok THEN [lastOp EXCEPT ![q.todo] = "attach"] ELSE lastOp
     /\ todos' = Append(todos, q.todo)
     /\ Respond(h, q, 201)
  /\ UNCHANGED <<bucket, nextId, clock, started, delFailed, deleted>>

----------------------------------------------------------------------------
\* PUT /api/todos/:id (lines 167-181)

PutTodo(id, completed) ==
  /\ Admit
  /\ LET q == [Entered("put", id, FALSE, Null) EXCEPT !.todo = Find(id),
                                                       !.completed = completed] IN
     IF q.todo = 0
     THEN /\ Respond(IdleReq, q, 404)
          /\ UNCHANGED heap
     ELSE /\ heap' = IF IsBoolean(completed)
                     THEN [heap EXCEPT ![q.todo].completed = (completed = "true")]
                     ELSE heap
          /\ Respond(IdleReq, q, 200)
  /\ UNCHANGED <<bucket, todos, nextId, store, clock, putOk, lastOp, delFailed, deleted>>

----------------------------------------------------------------------------
\* DELETE /api/todos/:id (lines 183-205)

DeleteTodo(id) ==
  /\ Admit
  /\ LET idx == FindIndex(id)
         q == [Entered("delete", id, FALSE, Null) EXCEPT !.todoIndex = idx] IN
     IF idx = 0
     THEN /\ Respond(IdleReq, q, 404)
          /\ UNCHANGED <<todos, deleted>>
     ELSE LET n == [q EXCEPT !.todo = todos[idx]] IN
          IF HasPhoto(heap[n.todo]) /\ Configured
          THEN /\ Suspend(IdleReq, [n EXCEPT !.pc = "delete_del",
                                !.key = heap[n.todo].photoFilename,
                                !.ops = Call(n, "delete", heap[n.todo].photoFilename)])
               /\ UNCHANGED <<todos, deleted>>
          ELSE /\ todos' = Splice(todos, idx)
               /\ deleted' = deleted \cup {id}
               /\ Respond(IdleReq, n, 204)
  /\ UNCHANGED <<bucket, heap, nextId, store, clock, putOk, lastOp, delFailed>>

\* bucket.file(todo.photoFilename).delete() returned (line 196)
DeleteTodoReturn(h, ok) ==
  /\ h.pc = "delete_del"
  /\ LET q == [h EXCEPT !.ops = Returned(h, ok)] IN
     /\ DeleteDone(q.key, ok)
     /\ todos' = Splice(todos, q.todoIndex)
     /\ deleted' = deleted \cup {q.id}
     /\ Respond(h, q, 204)
  /\ UNCHANGED <<bucket, heap, nextId, clock, started, putOk, lastOp>>

----------------------------------------------------------------------------
\* GET /api/todos/:id/photo (lines 208-231) and getSignedUrl (lines 114-124)

GetPhoto(id) ==
  /\ Admit
  /\ LET q == [Entered("getPhoto", id, FALSE, Null) EXCEPT !.todo = Find(id)] IN
     IF q.todo = 0 \/ ~HasPhoto(heap[q.todo])
     THEN Respond(IdleReq, q, 404)
     ELSE IF ~Configured
     THEN Respond(IdleReq, q, 500)
     ELSE Suspend(IdleReq, [q EXCEPT !.pc = "get_sign",
                        !.key = heap[q.todo].photoFilename,
                        !.ops = Call(q, "sign", heap[q.todo].photoFilename)])
  /\ UNCHANGED <<bucket, todos, heap, nextId, store, clock, putOk, lastOp, delFailed, deleted>>

\* file.getSignedUrl() returned (line 118)
GetPhotoReturn(h, ok) ==
  /\ h.pc = "get_sign"
  /\ LET q == [h EXCEPT !.ops = Returned(h, ok)] IN
     IF ok THEN Respond(h, [q EXCEPT !.url = <<"signed", q.key>>], 200)
           ELSE Respond(h, q, 500)
  /\ UNCHANGED <<bucket, todos, heap, nextId, store, clock, started, putOk, lastOp, delFailed, deleted>>

----------------------------------------------------------------------------
\* POST /api/todos/:id/photo (lines 234-269) with uploadPhotoToGCS (90-111)

AttachPhoto(id, file) ==
  /\ Admit
  /\ LET q == [Entered("attach", id, file, Null) EXCEPT !.todo = Find(id)] IN
     IF q.todo = 0
     THEN Respond(IdleReq, q, 404)
     ELSE IF ~file
     THEN Respond(IdleReq, q, 400)
     ELSE IF ~Configured
     THEN Respond(IdleReq, q, 500)
     ELSE IF HasPhoto(heap[q.todo])
     THEN Suspend(IdleReq, [q EXCEPT !.pc = "attach_del",
                        !.key = heap[q.todo].photoFilename,
                        !.ops = Call(q, "delete", heap[q.todo].photoFilename)])
     ELSE Suspend(IdleReq, [q EXCEPT !.pc = "attach_sharp",
                        !.ops = Call(q, "sharp", Null)])
  /\ UNCHANGED <<bucket, todos, heap, nextId, store, clock, putOk, lastOp, delFailed, deleted>>

\* bucket.file(todo.photoFilename).delete() returned (line 254); its failure
\* is caught and logged, and the handler goes on to uploadPhotoToGCS
AttachDeleteReturn(h, ok) ==
  /\ h.pc = "attach_del"
  /\ LET q == [h EXCEPT !.ops = Returned(h, ok)] IN
     /\ DeleteDone(q.key, ok)
     /\ Suspend(h, [q EXCEPT !.pc = "attach_sharp", !.key = Null,
                      !.ops = Call(q, "sharp", Null)])
  /\ UNCHANGED <<bucket, todos, heap, nextId, clock, started, putOk, lastOp, deleted>>

\* sharp(...).toBuffer() returned inside uploadPhotoToGCS called by attach
AttachSharpReturn(h, ok, now) ==
  /\ h.pc = "attach_sharp"
  /\ LET q == [h EXCEPT !.ops = Returned(h, ok)] IN
     IF ok
     THEN LET key == Filename(q.id, now) IN
          /\ clock' = now
          /\ Suspend(h, [q EXCEPT !.pc = "attach_save", !.key = key,
                           !.ops = Call(q, "put", key)])
     ELSE /\ now = clock
          /\ Respond(h, q, 500)
          /\ UNCHANGED clock
  /\ UNCHANGED <<bucket, todos, heap, nextId, store, started, putOk, lastOp, delFailed, deleted>>

\* file.save() returned inside uploadPhotoToGCS called by attach
AttachSaveReturn(h, ok) ==
  /\ h.pc = "attach_save"
  /\ LET q == [h EXCEPT !.ops = Returned(h, ok)] IN
     /\ PutDone(q.key, ok)
     /\ heap' = LinkedAfterUpload(heap, q.todo, q.key, ok)
     /\ lastOp' = IF ok THEN [lastOp EXCEPT ![q.todo] = "attach"] ELSE lastOp
     /\ Respond(h, q, IF ok THEN 200 ELSE 500)
  /\ UNCHANGED <<bucket, todos, nextId, clock, started, delFailed, deleted>>

----------------------------------------------------------------------------
\* DELETE /api/todos/:id/photo (lines 272-297)

DetachPhoto(id) ==
  /\ Admit
  /\ LET q == [Entered("detach", id, FALSE, Null) EXCEPT !.todo = Find(id)] IN
     IF q.todo = 0 \/ ~HasPhoto(heap[q.todo])
     THEN /\ Respond(IdleReq, q, 404)
          /\ UNCHANGED <<heap, lastOp>>
     ELSE IF Configured
     THEN /\ Suspend(IdleReq, [q EXCEPT !.pc = "detach_del",
                           !.key = heap[q.todo].photoFilename,
                           !.ops = Call(q, "delete", heap[q.todo].photoFilename)])
          /\ UNCHANGED <<heap, lastOp>>
     ELSE /\ heap' = [heap EXCEPT ![q.todo] = Unlinked(@)]
          /\ lastOp' = [lastOp EXCEPT ![q.todo] = "detach"]
          /\ Respond(IdleReq, q, 200)
  /\ UNCHANGED <<bucket, todos, nextId, store, clock, putOk, delFailed, deleted>>

\* bucket.file(todo.photoFilename).delete() returned (line 286): a rejection
\* jumps to the catch block (lines 293-296), past the two assignments
DetachReturn(h, ok) ==
  /\ h.pc = "detach_del"
  /\ LET q == [h EXCEPT !.ops = Returned(h, ok)] IN
     /\ DeleteDone(q.key, ok)
     /\ heap' = IF ok THEN [heap EXCEPT ![q.todo] = Unlinked(@)] ELSE heap
     /\ lastOp' = IF ok THEN [lastOp EXCEPT ![q.todo] = "detach"] ELSE lastOp
     /\ Respond(h, q, IF ok THEN 200 ELSE 500)
  /\ UNCHANGED <<bucket, todos, nextId, clock, started, putOk, deleted>>

----------------------------------------------------------------------------
\* Environment and specifications

\* Values Date.now() may return: never less than the value read before.
Nows == clock..MaxClock

\* Values of parseInt(req.params.id): every id assigned so far, and 0 for
\* any value that is the id of no todo (NaN, or an id not assigned yet).
Ids == 0..(nextId - 1)

\* A request arrives and its handler runs to its first await or to its
\* response.
Start ==
  \/ ListTodos
  \/ \E text \in Texts, file \in BOOLEAN : CreateTodo(text, file)
  \/ \E id \in Ids, c \in CompletedValues : PutTodo(id, c)
  \/ \E id \in Ids : DeleteTodo(id)
  \/ \E id \in Ids : GetPhoto(id)
  \/ \E id \in Ids, file \in BOOLEAN : AttachPhoto(id, file)
  \/ \E id \in Ids : DetachPhoto(id)

\* An awaited call of a suspended handler h returns and the handler runs on
\* to its next await or to its response.
Continue ==
  \/ \E h \in Handlers, ok \in BOOLEAN, now \in Nows : CreateSharpReturn(h, ok, now)
  \/ \E h \in Handlers, ok \in BOOLEAN : CreateSaveReturn(h, ok)
  \/ \E h \in Handlers, ok \in BOOLEAN : DeleteTodoReturn(h, ok)
  \/ \E h \in Handlers, ok \in BOOLEAN : GetPhotoReturn(h, ok)
  \/ \E h \in Handlers, ok \in BOOLEAN : AttachDeleteReturn(h, ok)
  \/ \E h \in Handlers, ok \in BOOLEAN, now \in Nows : AttachSharpReturn(h, ok, now)
  \/ \E h \in Handlers, ok \in BOOLEAN : AttachSaveReturn(h, ok)
  \/ \E h \in Handlers, ok \in BOOLEAN : DetachReturn(h, ok)

\* Handlers interleave at their awaits (Node's single-threaded event loop).
Next == Start \/ Continue

Spec == Init /\ [][Next]_vars

\* Requests executed one at a time: a request is admitted only when no other
\* request is in flight.
AllIdle == inflight = EmptyBag

NextSeq ==
  \/ AllIdle /\ ListTodos
  \/ AllIdle /\ \E text \in Texts, file \in BOOLEAN : CreateTodo(text, file)
  \/ AllIdle /\ \E id \in Ids, c \in CompletedValues : PutTodo(id, c)
  \/ AllIdle /\ \E id \in Ids : DeleteTodo(id)
  \/ AllIdle /\ \E id \in Ids : GetPhoto(id)
  \/ AllIdle /\ \E id \in Ids, file \in BOOLEAN : AttachPhoto(id, file)
  \/ AllIdle /\ \E id \in Ids : DetachPhoto(id)
  \/ Continue

SpecSeq == Init /\ [][NextSeq]_vars

\* Every awaited call (sharp, file.save, file.delete, getSignedUrl) eventually
\* settles, with success or with an error: a suspended handler is resumed.
SpecFair == Spec /\ WF_vars(Continue)

----
\* Properties

\* The step just taken sent the response of a request of this kind.
JustResponded(kind) == last.pc = "done" /\ last.kind = kind

\* The calls of this kind in the call log of the request that just responded.
LastCalls(op) == {i \in 1..Len(last.ops) : last.ops[i][1] = op}

NoAttachment(t) == ~t.hasPhoto /\ t.photoFilename = Null

\* C1: a detach of a todo that has an attachment (any detach not answered
\* 404) responds 200 and leaves the todo with hasPhoto = false and
\* photoFilename = null, also when the store delete failed.
C1_DetachAlwaysClears ==
  (JustResponded("detach") /\ last.status # 404) =>
     /\ last.status = 200
     /\ NoAttachment(heap[last.todo])

\* C2: an attach that replaced a photo, whose delete of the old key succeeded
\* and whose put of the new object failed, leaves the todo without attachment.
C2_FailedReplaceLeavesNoAttachment ==
  (/\ JustResponded("attach")
   /\ \E i \in LastCalls("delete") : last.ops[i][3] = "ok"
   /\ \E i \in LastCalls("put") : last.ops[i][3] = "err")
  => NoAttachment(heap[last.todo])

\* C3: the photoFilename of every todo object with hasPhoto = true is a key
\* for which a put completed successfully before; a request whose
\* normalization or put failed has linked nothing that was not stored.
C3_LinkedKeysWereStored ==
  \A i \in 1..Len(heap) :
    (heap[i].hasPhoto \/ heap[i].photoFilename # Null) =>
       heap[i].photoFilename \in putOk

\* A todo in the collection carries a stored key while the request that just
\* responded was an upload whose put failed.
C3_Witness ==
  /\ \E i \in 1..Len(todos) :
        heap[todos[i]].hasPhoto /\ heap[todos[i]].photoFilename \in putOk
  /\ last.pc = "done"
  /\ \E i \in LastCalls("put") : last.ops[i][3] = "err"

\* C4: an attach on a todo that already has a photo, whose normalization
\* failed, has issued no store call (neither delete nor put), the old object
\* is still in the store and the attachment is unchanged.
C4_NormalizeBeforeOldDelete ==
  (/\ JustResponded("attach")
   /\ \E i \in LastCalls("sharp") : last.ops[i][3] = "err"
   /\ HasPhoto(heap[last.todo]))
  => /\ LastCalls("delete") = {}
     /\ LastCalls("put") = {}
     /\ heap[last.todo].photoFilename \in store

\* The collection without the todos whose id is `id`.
WithoutId(s, id) ==
  LET Keep(x) == heap[x].id # id IN SelectSeq(s, Keep)

\* C5 (requests one at a time): a DELETE of an id present in the collection
\* responds 204 and removes exactly that todo, with or without a photo and
\* whether the store delete succeeded or failed.
C5_DeleteAlwaysRemoves ==
  [][ (last'.pc = "done" /\ last'.kind = "delete" /\ FindIndex(last'.id) # 0)
        => /\ last'.status = 204
           /\ todos' = WithoutId(todos, last'.id)
           /\ \A i \in 1..Len(todos') : heap'[todos'[i]].id # last'.id ]_vars

\* A todo with a photo was deleted although the store delete failed.
C5_Witness ==
  /\ JustResponded("delete")
  /\ last.status = 204
  /\ \E i \in LastCalls("delete") : last.ops[i][3] = "err"
  /\ FindIndex(last.id) = 0

\* Text that is given and not made of whitespace only.
NonBlank(text) == text # Undefined /\ \E i \in 1..Len(text) : text[i] # Space

\* t is text without its leading and trailing whitespace.
IsTrimOf(t, text) ==
  /\ t # <<>> /\ t[1] # Space /\ t[Len(t)] # Space
  /\ \E i \in 0..Len(text) :
       /\ i + Len(t) <= Len(text)
       /\ SubSeq(text, i + 1, i + Len(t)) = t
       /\ \A k \in 1..Len(text) : (k <= i \/ k > i + Len(t)) => text[k] = Space

\* The keys the request that just responded has stored successfully.
LastStored == {last.ops[i][2] : i \in {j \in LastCalls("put") : last.ops[j][3] = "ok"}}

\* C6: POST /api/todos with non-blank text responds 201 and appends exactly
\* one new todo with the trimmed text and completed = false; the todo carries
\* the stored key when the upload succeeded and no attachment otherwise
\* (no photo supplied, normalization failed or put failed).
C6_CreateAlwaysSucceeds ==
  [][ (last'.pc = "done" /\ last'.kind = "create" /\ NonBlank(last'.text))
        => LET t == heap'[last'.todo] IN
           /\ last'.status = 201
           /\ \A i \in 1..Len(todos) : todos[i] # last'.todo
           /\ todos' = Append(todos, last'.todo)
           /\ IsTrimOf(t.text, last'.text)
           /\ t.completed = FALSE
           /\ IF LastStored' # {}
              THEN t.hasPhoto /\ LastStored' = {t.photoFilename}
              ELSE NoAttachment(t) ]_vars

\* A create with a photo whose put failed was answered 201, the todo created
\* without attachment from a text that needed trimming.
C6_Witness ==
  /\ JustResponded("create")
  /\ last.status = 201
  /\ last.file
  /\ last.text = <<Space, "a", Space>>
  /\ \E i \in LastCalls("put") : last.ops[i][3] = "err"
  /\ todos[Len(todos)] = last.todo
  /\ NoAttachment(heap[last.todo])

C7_State ==
  ~bucket =>
    /\ \A i \in 1..Len(heap) : NoAttachment(heap[i])
    /\ store = {}
    /\ inflight = EmptyBag
    /\ last.ops = <<>>
    /\ (JustResponded("create") /\ last.file /\ NonBlank(last.text))
          => last.status = 201 /\ todos[Len(todos)] = last.todo
    /\ (JustResponded("attach") /\ last.file /\ last.todo # 0)
          => last.status = 500

C7_Step ==
  (~bucket /\ last'.pc = "done" /\ last'.kind = "attach")
     => heap' = heap /\ todos' = todos /\ nextId' = nextId

\* C7: with the store unconfigured no handler issues a store call or
\* suspends, no todo ever has a photo, a create with a photo is answered 201
\* with the todo created, and an attach with a file on an existing todo is
\* answered 500 and changes nothing.
C7_Unconfigured == []C7_State /\ [][C7_Step]_vars

\* Unconfigured: a todo was created from a request with a photo, and an
\* attach with a file on it was just answered 500.
C7_Witness ==
  /\ ~bucket
  /\ JustResponded("attach")
  /\ last.file
  /\ last.todo = 3
  /\ last.status = 500

\* The request that just responded was a successful attach that replaced a
\* photo: its call log is <<delete old, sharp, put new>>.
JustReplaced ==
  /\ JustResponded("attach")
  /\ last.status = 200
  /\ LastCalls("delete") # {}

\* C8 (requests one at a time): after a successful attach on a todo that had
\* a photo, the todo references only the new key, the delete of the old key
\* was issued before the put of the new object, and the old key is not in
\* the store if that delete succeeded.
C8_ReplaceLeavesOneAttachment ==
  JustReplaced =>
    /\ Len(last.ops) = 3
    /\ last.ops[1][1] = "delete" /\ last.ops[3][1] = "put"
    /\ heap[last.todo].hasPhoto
    /\ heap[last.todo].photoFilename = last.ops[3][2]
    /\ last.ops[3][2] \in store
    /\ last.ops[1][3] = "ok" => last.ops[1][2] \notin store

\* Auxiliary: C8's statement restricted to a new key that differs from the
\* old one holds; it fails only when both uploads read the same Date.now().
C8_DistinctKeys ==
  (JustReplaced /\ last.ops[1][2] # last.ops[3][2]) => C8_ReplaceLeavesOneAttachment

\* C9, state part (requests one at a time, store configured): GET photo on a
\* todo of the collection whose last successful photo operation was an attach
\* is answered 200 with a non-null photoUrl when signing succeeds (500 when
\* it fails, never 404); after a successful detach it is answered 404.
C9_State ==
  (JustResponded("getPhoto") /\ bucket /\ last.todo # 0) =>
    /\ lastOp[last.todo] = "attach" =>
         /\ Len(last.ops) = 1
         /\ last.ops[1][3] = "ok" => last.status = 200 /\ last.url # Null
         /\ last.ops[1][3] = "err" => last.status = 500
    /\ lastOp[last.todo] = "detach" => last.status = 404

\* A step of a GET photo handler: it was just admitted, or it just responded.
GetPhotoStep ==
  \/ last'.pc = "done" /\ last'.kind = "getPhoto"
  \/ \E h \in BagToSet(inflight') :
        h.kind = "getPhoto" /\ BagCardinality(inflight') > BagCardinality(inflight)

\* C9, step part: GET photo changes neither the todos nor the store.
C9_Step ==
  GetPhotoStep =>
    /\ heap' = heap /\ todos' = todos /\ nextId' = nextId
    /\ store' = store /\ lastOp' = lastOp

\* C9: round trip attach - GET photo - detach - GET photo on one todo.
C9_RoundTrip == []C9_State /\ [][C9_Step]_vars

\* GET photo answered 404 for a todo that was attached to and then detached.
C9_Witness ==
  /\ JustResponded("getPhoto")
  /\ last.todo # 0
  /\ lastOp[last.todo] = "detach"
  /\ last.status = 404
  /\ putOk # {}

\* C10, state part: ids are unique among all todo objects ever constructed
\* (in the collection, deleted, or under construction), hence never assigned
\* twice, and every id handed out is below nextId.
C10_State ==
  /\ \A i, j \in 1..Len(heap) : i # j => heap[i].id # heap[j].id
  /\ \A i, j \in 1..Len(todos) : i # j => heap[todos[i]].id # heap[todos[j]].id
  /\ \A i \in 1..Len(heap) : heap[i].id < nextId

\* C10, step part: nextId never decreases, objects are never forgotten and
\* a new object's id is the old nextId.
C10_Step ==
  /\ nextId' >= nextId
  /\ Len(heap') >= Len(heap)
  /\ \A i \in 1..Len(heap) : heap'[i].id = heap[i].id
  /\ \A i \in (Len(heap) + 1)..Len(heap') : heap'[i].id >= nextId

\* C10: under any interleaving no two todos share an id, every id is below
\* nextId, nextId never decreases and no id is assigned twice.
C10_UniqueIds == []C10_State /\ [][C10_Step]_vars

\* Two creates are in flight at once after a seed todo was deleted.
C10_Witness ==
  /\ Find(2) = 0
  /\ Len(heap) = 4
  /\ BagCardinality(inflight) = 2
  /\ \A h \in Handlers : h.kind = "create"

\* ids[1..n] is in strictly increasing order.
Increasing(ids) == \A i, j \in 1..Len(ids) : i < j => ids[i] < ids[j]

\* C11: the collection is in strictly increasing id order in every state
\* (every create appends an id greater than all ids appended before it, also
\* with several creates in flight), and so is every list GET /api/todos
\* returns.
C11_AppendedInIdOrder ==
  /\ Increasing([i \in 1..Len(todos) |-> heap[todos[i]].id])
  /\ JustResponded("list") =>
        Increasing([i \in 1..Len(last.list) |-> last.list[i].id])

\* The todos of the collection whose photoFilename is key.
Referencing(key) == {i \in 1..Len(todos) : heap[todos[i]].photoFilename = key}

\* C12 (requests one at a time): between requests, as long as no store
\* delete was rejected, every object in the store is referenced by the
\* photoFilename of exactly one todo of the collection.
C12_NoOrphans ==
  (AllIdle /\ ~delFailed) => \A key \in store : Cardinality(Referencing(key)) = 1

\* A todo whose photo was stored has just been deleted, its object removed
\* from the store by a successful delete, and no delete was ever rejected.
C12_Witness ==
  /\ AllIdle /\ ~delFailed
  /\ JustResponded("delete")
  /\ \E i \in LastCalls("delete") : last.ops[i][3] = "ok" /\ last.ops[i][2] \in putOk
  /\ store = {}

\* C13 (requests one at a time, Date.now() non-decreasing and possibly
\* repeating): an upload that stored its object successfully, on create or
\* on the photo endpoint, used a key under which no earlier upload has
\* stored an object.
C13_KeysNeverReused ==
  [][ (last'.pc = "done" /\ last'.kind \in {"create", "attach"})
        => LastStored' \cap putOk = {} ]_vars

\* The request admitted by this step: it has responded within the step, or
\* it is the handler that joined the suspended ones.
Admitted ==
  IF last'.pc = "done" /\ BagCardinality(inflight') = BagCardinality(inflight)
  THEN last'
  ELSE CHOOSE h \in BagToSet(inflight') : CopiesIn(h, inflight') > CopiesIn(h, inflight)

\* The status the request r must be rejected with in the current state, 0
\* if it is not to be rejected for validation or not-found.
Rejection(r) ==
  IF r.kind = "create" THEN (IF NonBlank(r.text) THEN 0 ELSE 400)
  ELSE IF r.kind \notin {"put", "delete", "getPhoto", "attach", "detach"} THEN 0
  ELSE IF FindIndex(r.id) = 0 THEN 404
  ELSE IF r.kind \in {"getPhoto", "detach"} /\ NoAttachment(heap[Find(r.id)]) THEN 404
  ELSE IF r.kind = "attach" /\ ~r.file THEN 400
  ELSE 0

\* C14: a request that is to be rejected for validation or not-found when
\* it arrives is answered at once with its status (400 or 404), has issued
\* no call, and leaves the collection, the todos, nextId and the store
\* unchanged.
C14_RejectedHasNoEffect ==
  [][ (started' # started /\ Rejection(Admitted) # 0)
        => /\ last' = Admitted
           /\ last'.status = Rejection(Admitted)
           /\ last'.ops = <<>>
           /\ todos' = todos /\ heap' = heap /\ nextId' = nextId
           /\ store' = store ]_vars

\* A detach on a todo without attachment was just answered 404 while objects
\* are stored and another handler is suspended.
C14_Witness ==
  /\ JustResponded("detach")
  /\ last.status = 404
  /\ FindIndex(last.id) # 0
  /\ store # {}
  /\ inflight # EmptyBag

\* C15: PUT on an id present in the collection responds 200 and changes at
\* most the completed field of that todo: it is set to the body's value when
\* that is a boolean and left as it is otherwise; every other field, every
\* other todo, the collection, nextId and the store are unchanged.
C15_PutChangesOnlyCompleted ==
  [][ (last'.pc = "done" /\ last'.kind = "put" /\ FindIndex(last'.id) # 0)
        => LET ref == Find(last'.id)
               c == last'.completed
           IN /\ last'.status = 200
              /\ todos' = todos /\ nextId' = nextId /\ store' = store
              /\ Len(heap') = Len(heap)
              /\ \A i \in 1..Len(heap) : i # ref => heap'[i] = heap[i]
              /\ heap'[ref] = [heap[ref] EXCEPT !.completed =
                                  IF c = "true" THEN TRUE
                                  ELSE IF c = "false" THEN FALSE ELSE @] ]_vars

\* A PUT without a boolean was answered 200 on a completed todo that has a
\* photo, and the todo is still completed.
C15_Witness ==
  /\ JustResponded("put")
  /\ last.status = 200
  /\ last.completed = "absent"
  /\ heap[last.todo].completed
  /\ heap[last.todo].hasPhoto

\* C16: under any interleaving, a DELETE /api/todos/:id answered 204 leaves
\* no todo with that id in the collection and removes no todo with another
\* id: the collection after the response is the collection before it
\* without the todos of that id.
C16_DeleteRemovesExactlyItsTodo ==
  [][ (last'.pc = "done" /\ last'.kind = "delete" /\ last'.status = 204)
        => todos' = WithoutId(todos, last'.id) ]_vars

\* C17, state part: a request that wrote the attachment when it resumed
\* leaves its own write in the todo: the key it stored after a successful
\* attach, no attachment after a successful detach.
C17_State ==
  /\ (JustResponded("attach") /\ last.status = 200) =>
        /\ heap[last.todo].hasPhoto
        /\ heap[last.todo].photoFilename = last.key
        /\ LastStored = {last.key}
  /\ (JustResponded("detach") /\ last.status = 200) =>
        NoAttachment(heap[last.todo])

\* C17, step part: the attachment of a todo changes only in the step in
\* which a create, attach or detach on that todo resumes and succeeds.
C17_Step ==
  \A i \in 1..Len(heap) :
    (heap'[i].hasPhoto # heap[i].hasPhoto
       \/ heap'[i].photoFilename # heap[i].photoFilename)
    => /\ last'.pc = "done" /\ last'.todo = i
       /\ last'.kind \in {"create", "attach", "detach"}
       /\ last'.status \in {200, 201}

\* C17: last write wins. Under any interleaving the attachment of a todo is
\* the one written by the attach or detach that resumed last with success:
\* the key of the put that completed last, or none.
C17_LastWriteWins == []C17_State /\ [][C17_Step]_vars

\* Two attaches on one todo were the only requests, neither found a photo
\* to replace (they overlapped), both puts succeeded under different keys,
\* and the second has just responded.
C17_Witness ==
  /\ started = 2 /\ AllIdle
  /\ JustResponded("attach") /\ last.status = 200
  /\ LastCalls("delete") = {}
  /\ Cardinality(putOk) = 2
  /\ \A key \in putOk : key[1] = last.id

\* C18: once DELETE /api/todos/:id was answered 204 and no request is in
\* flight, the store holds no object of that todo (no key todos/<id>/...),
\* as long as no store delete was rejected.
C18_DeletedTodoLeavesNoObject ==
  (AllIdle /\ ~delFailed) =>
     \A id \in deleted : \A key \in store : key[1] # id

\* C19: in every reachable state, every todo object (in the collection,
\* removed from it, or under construction by a suspended create) has
\* hasPhoto = true exactly if its photoFilename is not null.
C19_PhotoFieldsAgree ==
  \A i \in 1..Len(heap) : heap[i].hasPhoto <=> (heap[i].photoFilename # Null)

\* A create is suspended at its put with its todo under construction while
\* a detach is suspended at its delete on a todo that has a photo.
C19_Witness ==
  /\ \E h \in Handlers : h.pc = "create_save" /\ NoAttachment(heap[h.todo])
  /\ \E h \in Handlers : h.pc = "detach_del" /\ heap[h.todo].hasPhoto

\* The calls of kind op in a call log.
CallsOf(ops, op) == {i \in 1..Len(ops) : ops[i][1] = op}

\* C20, state part: a request that responded did so with one status, after
\* every call it issued had settled, and issued at most one put and at most
\* one delete; a suspended handler has sent no response and waits for
\* exactly one call, the last it issued.
C20_State ==
  /\ last.pc = "done" =>
        /\ last.status \in {200, 201, 204, 400, 404, 500}
        /\ \A i \in 1..Len(last.ops) : last.ops[i][3] # "pending"
        /\ Cardinality(CallsOf(last.ops, "put")) <= 1
        /\ Cardinality(CallsOf(last.ops, "delete")) <= 1
  /\ \A h \in Handlers :
        /\ h.pc \notin {"idle", "done"} /\ h.status = 0
        /\ h.ops # <<>>
        /\ \A i \in 1..Len(h.ops) : (h.ops[i][3] = "pending") <=> (i = Len(h.ops))
        /\ Cardinality(CallsOf(h.ops, "put")) <= 1
        /\ Cardinality(CallsOf(h.ops, "delete")) <= 1
  /\ BagCardinality(inflight) <= started

\* The number of requests that have been admitted and are no longer open.
Closed == started - BagCardinality(inflight)

\* C20, step part: a request is closed by a response and by nothing else,
\* and a step that sends a response closes exactly one request.
C20_Step == Closed' - Closed = (IF last'.pc = "done" THEN 1 ELSE 0)

====
